---- MODULE Spec2Model ----
(***************************************************************************)
(* Score store (db_utils.py), service layer (api.py) and batch ingest      *)
(* (top_scorers.py) of the Top-scorers repository.                         *)
(*                                                                         *)
(* Strings are sequences of code points, so that lower-casing, splitting,  *)
(* substring search, integer parsing and formatting are computed the way   *)
(* the code computes them.  Code points used below:                        *)
(*   10 "\n"   32 " "   43 "+"   44 ","   45 "-"   48..57 "0".."9"         *)
(*   58 ":"    65..90 "A".."Z"   97..122 "a".."z"                          *)
(*   201 "E-acute" (upper case)  233 "e-acute" (lower case)                *)
(***************************************************************************)
EXTENDS Integers, Sequences, FiniteSets, TLC

VARIABLES store, pre, call, ret, fs, out, admins, reqs

vars == <<store, pre, call, ret, fs, out, admins, reqs>>

(***************************************************************************)
(* Bounds of the model.                                                    *)
(***************************************************************************)
MaxRecords == 3

MaxLines == 3

MaxAdmins == 2

MaxRequests == 2

(***************************************************************************)
(* Lower-casing.  Python's str.lower() folds every cased code point; the   *)
(* store is SQLite (db_utils.py:38-42), whose built-in lower() folds the   *)
(* ASCII letters only and returns every other character unchanged.         *)
(***************************************************************************)
PyLowerChar(c) ==
    IF c \in 65..90 \/ (c \in 192..222 /\ c # 215) THEN c + 32 ELSE c

SqlLowerChar(c) ==
    IF c \in 65..90 THEN c + 32 ELSE c

PyLower(s) == [i \in 1..Len(s) |-> PyLowerChar(s[i])]

SqlLower(s) == [i \in 1..Len(s) |-> SqlLowerChar(s[i])]

(***************************************************************************)
(* The user score table: rows in rowid order.                              *)
(***************************************************************************)
UserScore(id, first, second, score) ==
    [id |-> id, first_name |-> first, second_name |-> second, score |-> score]

\* response_model=UserScoreBase: the response carries no id
UserScoreBase(row) ==
    [first_name |-> row.first_name, second_name |-> row.second_name,
     score |-> row.score]

Ids(table) == {table[i].id : i \in 1..Len(table)}

\* the rowid SQLite gives an inserted row whose id is None: largest rowid + 1
NewId(table) ==
    IF table = <<>> THEN 1
    ELSE (CHOOSE m \in Ids(table) : \A k \in Ids(table) : k <= m) + 1

\* mutant of NameMatches: the where clause on second_name is missing
NameMatchesFirstOnly(row, first, second) ==
    SqlLower(row.first_name) = PyLower(first)

\* the where clause shared by create_or_update_user_score and get_score_for_user
NameMatches(row, first, second) ==
    /\ SqlLower(row.first_name) = PyLower(first)
    /\ SqlLower(row.second_name) = PyLower(second)

SelectByName(table, first, second) ==
    LET Hit(row) == NameMatches(row, first, second)
    IN  SelectSeq(table, Hit)

\* user_scores[0].score = new_user_score.score
UpdateScore(row, first, second, score) ==
    [row EXCEPT !.score = score]

\* create_or_update_user_score: the table after the commit and the row returned
CreateOrUpdate(table, first, second, score) ==
    LET user_scores == SelectByName(table, first, second)
    IN  IF Len(user_scores) > 0
        THEN LET target == user_scores[1]
                 updated == UpdateScore(target, first, second, score)
             IN  [table |-> [i \in 1..Len(table) |->
                                IF table[i].id = target.id THEN updated
                                ELSE table[i]],
                  row |-> updated]
        ELSE LET added == UserScore(NewId(table), first, second, score)
             IN  [table |-> Append(table, added), row |-> added]

\* mutant of MaxScoreRows: ties after the first row at the maximum are dropped
MaxScoreRowsFirstOnly(table) ==
    LET Top(row) == \A i \in 1..Len(table) : table[i].score <= row.score
        all == SelectSeq(table, Top)
    IN  IF all = <<>> THEN <<>> ELSE <<all[1]>>

\* select(UserScore).where(UserScore.score == select(max(UserScore.score)))
MaxScoreRows(table) ==
    LET Top(row) == \A i \in 1..Len(table) : table[i].score <= row.score
    IN  SelectSeq(table, Top)

Serialize(rows) == [i \in 1..Len(rows) |-> UserScoreBase(rows[i])]

(***************************************************************************)
(* String operations of the batch ingest.                                  *)
(***************************************************************************)
Comma == <<44>>

Newline == <<10>>

Space == <<32>>

\* the literal "first name" of the header test
HeaderPhrase == <<102, 105, 114, 115, 116, 32, 110, 97, 109, 101>>

\* the literal "\nScore: " of the report
ScoreLabel == <<10, 83, 99, 111, 114, 101, 58, 32>>

\* "Invalid Arguments: Please provide an input file"
InvalidArguments ==
    <<73, 110, 118, 97, 108, 105, 100, 32, 65, 114, 103, 117, 109, 101, 110,
      116, 115, 58, 32, 80, 108, 101, 97, 115, 101, 32, 112, 114, 111, 118,
      105, 100, 101, 32, 97, 110, 32, 105, 110, 112, 117, 116, 32, 102, 105,
      108, 101>>

\* str.split(sep) for a one-character separator
RECURSIVE Split(_, _)
Split(s, sep) ==
    LET at == {i \in 1..Len(s) : <<s[i]>> = sep}
    IN  IF at = {} THEN <<s>>
        ELSE LET i == CHOOSE k \in at : \A j \in at : k <= j
             IN  <<SubSeq(s, 1, i - 1)>> \o Split(SubSeq(s, i + 1, Len(s)), sep)

\* str.find(sub): the index (from 0) of the first occurrence, or -1
Find(s, sub) ==
    LET at == {i \in 1..(Len(s) - Len(sub) + 1) :
                  SubSeq(s, i, i + Len(sub) - 1) = sub}
    IN  IF at = {} THEN -1
        ELSE (CHOOSE k \in at : \A j \in at : k <= j) - 1

\* the characters str.strip() and int() treat as white space
IsWhite(c) == c \in 9..13 \/ c = 32

RECURSIVE Strip(_)
Strip(s) ==
    IF s = <<>> THEN s
    ELSE IF IsWhite(s[1]) THEN Strip(Tail(s))
    ELSE IF IsWhite(s[Len(s)]) THEN Strip(SubSeq(s, 1, Len(s) - 1))
    ELSE s

IsDigits(s) == s # <<>> /\ \A i \in 1..Len(s) : s[i] \in 48..57

RECURSIVE DigitsValue(_)
DigitsValue(s) ==
    IF s = <<>> THEN 0
    ELSE 10 * DigitsValue(SubSeq(s, 1, Len(s) - 1)) + (s[Len(s)] - 48)

\* int(text): white space around, an optional sign, decimal digits; anything
\* else raises ValueError (ok = FALSE)
ParseInt(text) ==
    LET t == Strip(text)
        signed == t # <<>> /\ t[1] \in {43, 45}
        digits == IF signed THEN Tail(t) ELSE t
    IN  IF IsDigits(digits)
        THEN [ok |-> TRUE,
              value |-> IF signed /\ t[1] = 45 THEN 0 - DigitsValue(digits)
                        ELSE DigitsValue(digits)]
        ELSE [ok |-> FALSE, value |-> 0]

RECURSIVE NatToStr(_)
NatToStr(n) ==
    IF n < 10 THEN <<48 + n>> ELSE NatToStr(n \div 10) \o <<48 + (n % 10)>>

\* f"{highest_score}"
IntToStr(n) == IF n < 0 THEN <<45>> \o NatToStr(0 - n) ELSE NatToStr(n)

\* s < t in the order sorted() uses on strings: by code point, a prefix first
RECURSIVE StrLess(_, _)
StrLess(s, t) ==
    IF t = <<>> THEN FALSE
    ELSE IF s = <<>> THEN TRUE
    ELSE IF s[1] # t[1] THEN s[1] < t[1]
    ELSE StrLess(Tail(s), Tail(t))

RECURSIVE InsertSorted(_, _)
InsertSorted(sorted, name) ==
    IF sorted = <<>> THEN <<name>>
    ELSE IF StrLess(name, sorted[1]) THEN <<name>> \o sorted
    ELSE <<sorted[1]>> \o InsertSorted(Tail(sorted), name)

\* sorted(highest_users); stable, and equal strings are indistinguishable
RECURSIVE Sorted(_)
Sorted(names) ==
    IF names = <<>> THEN <<>>
    ELSE InsertSorted(Sorted(SubSeq(names, 1, Len(names) - 1)), names[Len(names)])

(***************************************************************************)
(* find_highest                                                            *)
(***************************************************************************)
\* mutant of IsHeaderLine: the phrase is searched without lower-casing the line
IsHeaderLineCaseSensitive(line) == Find(line, HeaderPhrase) >= 0

\* line.lower().find("first name") >= 0
IsHeaderLine(line) == Find(PyLower(line), HeaderPhrase) >= 0

\* mutant of ReportName: the name is taken from the row the store answered with
ReportNameFromStore(details, row) ==
    row.first_name \o Space \o row.second_name

\* f"{details[0]} {details[1]}"
ReportName(details, row) == details[1] \o Space \o details[2]

\* mutant of Reduce: a score equal to the highest replaces the list
ReduceNoTies(acc, name, user_score) ==
    IF user_score >= acc.highest_score
    THEN [acc EXCEPT !.highest_scorers = <<name>>, !.highest_score = user_score]
    ELSE acc

\* the "Find highest scorers" block of the loop body
Reduce(acc, name, user_score) ==
    IF user_score = acc.highest_score
    THEN [acc EXCEPT !.highest_scorers = Append(@, name)]
    ELSE IF user_score > acc.highest_score
    THEN [acc EXCEPT !.highest_scorers = <<name>>, !.highest_score = user_score]
    ELSE acc

\* mutant of RaiseValueError: a row whose score does not parse is skipped
SkipValueError(acc) == acc

\* int(details[2]) raised: the exception leaves the loop and find_highest
RaiseValueError(acc) == [acc EXCEPT !.raised = "ValueError"]

\* one iteration of the loop over the lines.  acc.raised names the exception
\* that ended the loop; acc.lines lists the lines upserted and reduced so far.
LoopBody(acc, line) ==
    IF line = <<>> THEN acc
    ELSE IF IsHeaderLine(line) THEN acc
    ELSE LET details == Split(line, Comma)
         IN  IF Len(details) < 3 THEN [acc EXCEPT !.raised = "IndexError"]
             ELSE LET parsed == ParseInt(details[3])
                  IN  IF ~parsed.ok THEN RaiseValueError(acc)
                      ELSE LET r == CreateOrUpdate(acc.table, details[1],
                                                   details[2], parsed.value)
                               name == ReportName(details, r.row)
                               done == [acc EXCEPT !.table = r.table,
                                                   !.lines = Append(@, line)]
                           IN  Reduce(done, name, parsed.value)

RECURSIVE Loop(_, _)
Loop(acc, users) ==
    IF users = <<>> \/ acc.raised # "none" THEN acc
    ELSE Loop(LoopBody(acc, users[1]), Tail(users))

\* find_highest(input) on a table: the table left behind, the tuple returned
\* (when nothing was raised) and the exception raised (otherwise)
FindHighest(input, table) ==
    Loop([table |-> table, highest_scorers |-> <<>>, highest_score |-> 0,
          raised |-> "none", lines |-> <<>>],
         Split(input, Newline))

(***************************************************************************)
(* handle                                                                  *)
(***************************************************************************)
\* the loop over sorted_users: counter starts at 0 and grows by one per name,
\* and the space is appended whenever counter != len(sorted_users)
RECURSIVE JoinLoop(_, _, _, _)
JoinLoop(rest, output, counter, n) ==
    IF rest = <<>> THEN output
    ELSE IF counter # n
         THEN JoinLoop(Tail(rest), output \o rest[1] \o Space, counter + 1, n)
         ELSE JoinLoop(Tail(rest), output \o rest[1], counter, n)

JoinNames(sorted_users) == JoinLoop(sorted_users, <<>>, 0, Len(sorted_users))

\* the text handle composes from find_highest's result
Compose(highest_users, highest_score) ==
    JoinNames(Sorted(highest_users)) \o ScoreLabel \o IntToStr(highest_score)

(***************************************************************************)
(* Inputs of the service operations.                                       *)
(***************************************************************************)
\* ("a","u") ("A","U") ("a","v") ("E-acute","u")
Identities == { <<(<<97>>), (<<117>>)>>, <<(<<65>>), (<<85>>)>>,
                <<(<<97>>), (<<118>>)>>, <<(<<201>>), (<<117>>)>> }

Scores == {-1, 0, 1}

NoCall == [op |-> "none", first |-> <<>>, second |-> <<>>, score |-> 0,
           argv |-> <<>>, form |-> <<>>]

NoRet == [status |-> "none", rows |-> <<>>, names |-> <<>>, highest |-> 0,
          lines |-> <<>>]

NoOut == [stdout |-> <<>>, code |-> 0]

\* the files the driver can be pointed at
Paths == {"in.csv", "nope.csv", "locked.csv", "out.txt", "ro.txt"}

File(exists, readable, writable, content) ==
    [exists |-> exists, readable |-> readable, writable |-> writable,
     content |-> content]

\* in.csv holds the batch; nope.csv does not exist; locked.csv cannot be read;
\* out.txt can be created; ro.txt cannot be written
Files(input) ==
    [p \in Paths |->
        CASE p = "in.csv" -> File(TRUE, TRUE, TRUE, input)
          [] p = "nope.csv" -> File(FALSE, FALSE, FALSE, <<>>)
          [] p = "locked.csv" -> File(TRUE, FALSE, FALSE, <<>>)
          [] p = "out.txt" -> File(FALSE, FALSE, TRUE, <<>>)
          [] OTHER -> File(TRUE, TRUE, FALSE, <<>>)]

NoFiles == Files(<<>>)

\* the admin user table before create_admin_user has run
NoAdmins == <<>>

\* the requests that can be in flight at once
Requests == 1..MaxRequests

\* a request that has not started
Idle == [pc |-> "idle", first |-> <<>>, second |-> <<>>, score |-> 0,
         user_scores |-> <<>>]

NoRequests == [p \in Requests |-> Idle]

Init ==
    /\ store = <<>>
    /\ pre = <<>>
    /\ call = NoCall
    /\ ret = NoRet
    /\ fs = NoFiles
    /\ out = NoOut
    /\ admins = NoAdmins
    /\ reqs = NoRequests

\* will this upsert insert a row?
Inserts(table, first, second) == Len(SelectByName(table, first, second)) = 0

\* create_or_update_user_score called directly, as test_db_utils.py does
Upsert ==
    \E idn \in Identities, sc \in Scores :
        LET r == CreateOrUpdate(store, idn[1], idn[2], sc)
        IN  /\ Inserts(store, idn[1], idn[2]) => Len(store) < MaxRecords
            /\ store' = r.table
            /\ pre' = store
            /\ call' = [NoCall EXCEPT !.op = "upsert", !.first = idn[1],
                                      !.second = idn[2], !.score = sc]
            /\ ret' = [NoRet EXCEPT !.status = "ok", !.rows = <<r.row>>]
            /\ UNCHANGED <<fs, out, admins, reqs>>

\* POST /user_scores/
PostUserScore ==
    \E idn \in Identities, sc \in Scores :
        LET r == CreateOrUpdate(store, idn[1], idn[2], sc)
        IN  /\ Inserts(store, idn[1], idn[2]) => Len(store) < MaxRecords
            /\ store' = r.table
            /\ pre' = store
            /\ call' = [NoCall EXCEPT !.op = "post", !.first = idn[1],
                                      !.second = idn[2], !.score = sc]
            /\ ret' = [NoRet EXCEPT !.status = "200",
                                    !.rows = Serialize(<<r.row>>)]
            /\ UNCHANGED <<fs, out, admins, reqs>>

\* the status get_score_for_user answers with for n matching rows
LookupStatus(n) ==
    IF n < 1 THEN "404" ELSE IF n > 1 THEN "500" ELSE "200"

\* GET /user_scores/?first_name=&second_name=
GetScoreForUser ==
    \E idn \in Identities :
        LET user_scores == SelectByName(store, idn[1], idn[2])
            status == LookupStatus(Len(user_scores))
        IN  /\ store' = store
            /\ pre' = store
            /\ call' = [NoCall EXCEPT !.op = "get", !.first = idn[1],
                                      !.second = idn[2]]
            /\ ret' = [NoRet EXCEPT !.status = status,
                          !.rows = IF status = "200"
                                   THEN Serialize(<<user_scores[1]>>)
                                   ELSE <<>>]
            /\ UNCHANGED <<fs, out, admins, reqs>>

\* GET /top_scorers/
GetHighestScoringUsers ==
    /\ store' = store
    /\ pre' = store
    /\ call' = [NoCall EXCEPT !.op = "top"]
    /\ ret' = [NoRet EXCEPT !.status = "200",
                            !.rows = Serialize(MaxScoreRows(store))]
    /\ UNCHANGED <<fs, out, admins, reqs>>

\* GET /
ShowAll ==
    /\ store' = store
    /\ pre' = store
    /\ call' = [NoCall EXCEPT !.op = "list"]
    /\ ret' = [NoRet EXCEPT !.status = "200", !.rows = Serialize(store)]
    /\ UNCHANGED <<fs, out, admins, reqs>>

Next ==
    \/ Upsert
    \/ PostUserScore
    \/ GetScoreForUser
    \/ GetHighestScoringUsers
    \/ ShowAll

Spec == Init /\ [][Next]_vars

(***************************************************************************)
(* The batch ingest: one run of find_highest or of the driver on a batch   *)
(* text, against a store earlier runs have filled.                         *)
(***************************************************************************)
\* "" / "First name,Second name,Score" / "a,u,0" / "A,U,2" / "a,v,2" /
\* "E-acute,u,-1" / " " / "b,first name,1" / "a,u,x"
BatchLines ==
    { <<>>,
      <<70, 105, 114, 115, 116, 32, 110, 97, 109, 101, 44, 83, 101, 99, 111,
        110, 100, 32, 110, 97, 109, 101, 44, 83, 99, 111, 114, 101>>,
      <<97, 44, 117, 44, 48>>,
      <<65, 44, 85, 44, 50>>,
      <<97, 44, 118, 44, 50>>,
      <<201, 44, 117, 44, 45, 49>>,
      <<32>>,
      <<98, 44, 102, 105, 114, 115, 116, 32, 110, 97, 109, 101, 44, 49>>,
      <<97, 44, 117, 44, 120>> }

RECURSIVE JoinLines(_)
JoinLines(lines) ==
    IF lines = <<>> THEN <<>>
    ELSE IF Len(lines) = 1 THEN lines[1]
    ELSE lines[1] \o Newline \o JoinLines(Tail(lines))

\* the batch texts: up to MaxLines lines
Texts ==
    {JoinLines(ls) : ls \in UNION {[1..n -> BatchLines] : n \in 0..MaxLines}}

RECURSIVE UpsertAll(_, _)
UpsertAll(table, submissions) ==
    IF submissions = <<>> THEN table
    ELSE UpsertAll(CreateOrUpdate(table, submissions[1][1], submissions[1][2],
                                  submissions[1][3]).table,
                   Tail(submissions))

\* submissions of earlier runs: none / ("A","U",3) / ("a","v",1),("b","u",5)
EarlierSubmissions ==
    { <<>>,
      << <<(<<65>>), (<<85>>), 3>> >>,
      << <<(<<97>>), (<<118>>), 1>>, <<(<<98>>), (<<117>>), 5>> >> }

\* the stores the batch can start from: what those submissions leave behind
EarlierStores == {UpsertAll(<<>>, subs) : subs \in EarlierSubmissions}

\* the arguments after the program name
Argvs == { <<>>, <<"in.csv">>, <<"in.csv", "out.txt">>, <<"in.csv", "ro.txt">>,
           <<"nope.csv">>, <<"locked.csv">> }

InitBatch ==
    /\ store \in EarlierStores
    /\ pre = store
    /\ call = NoCall
    /\ ret = NoRet
    /\ fs \in {Files(text) : text \in Texts}
    /\ out = NoOut
    /\ admins = NoAdmins
    /\ reqs = NoRequests

\* find_highest called on the text of in.csv, as test_top_scorers.py does
FindHighestCall ==
    /\ call.op = "none"
    /\ LET r == FindHighest(fs["in.csv"].content, store)
       IN  /\ store' = r.table
           /\ pre' = store
           /\ call' = [NoCall EXCEPT !.op = "find_highest"]
           /\ ret' = IF r.raised = "none"
                     THEN [NoRet EXCEPT !.status = "ok",
                                        !.names = r.highest_scorers,
                                        !.highest = r.highest_score,
                                        !.lines = r.lines]
                     ELSE [NoRet EXCEPT !.status = r.raised, !.lines = r.lines]
           /\ UNCHANGED <<fs, out, admins, reqs>>

\* handle() stopped before find_highest: the diagnostic and sys.exit(1)
HandleInvalidArguments(argv) ==
    /\ store' = store
    /\ pre' = store
    /\ call' = [NoCall EXCEPT !.op = "handle", !.argv = argv]
    /\ ret' = [NoRet EXCEPT !.status = "SystemExit"]
    /\ out' = [stdout |-> InvalidArguments \o Newline, code |-> 1]
    /\ UNCHANGED <<fs, admins, reqs>>

\* handle() ended by an exception it does not catch: nothing on stdout, the
\* interpreter exits with status 1
HandleUncaught(argv, table, lines, exception) ==
    /\ store' = table
    /\ pre' = store
    /\ call' = [NoCall EXCEPT !.op = "handle", !.argv = argv]
    /\ ret' = [NoRet EXCEPT !.status = exception, !.lines = lines]
    /\ out' = [stdout |-> <<>>, code |-> 1]
    /\ UNCHANGED <<fs, admins, reqs>>

\* handle() past find_highest: the text goes to the output file or to stdout
HandleReport(argv, r) ==
    LET output == Compose(r.highest_scorers, r.highest_score)
        toFile == Len(argv) >= 2 /\ fs[argv[2]].writable
    IN  /\ store' = r.table
        /\ pre' = store
        /\ call' = [NoCall EXCEPT !.op = "handle", !.argv = argv]
        /\ ret' = [NoRet EXCEPT !.status = "ok", !.names = r.highest_scorers,
                                !.highest = r.highest_score, !.lines = r.lines]
        /\ fs' = IF toFile
                 THEN [fs EXCEPT ![argv[2]] = File(TRUE, TRUE, TRUE, output)]
                 ELSE fs
        /\ out' = IF toFile THEN [stdout |-> <<>>, code |-> 0]
                  ELSE [stdout |-> output \o Newline, code |-> 0]
        /\ UNCHANGED <<admins, reqs>>

\* the driver
Handle ==
    /\ call.op = "none"
    /\ \E argv \in Argvs :
          IF Len(argv) < 1 \/ ~fs[argv[1]].exists
          THEN HandleInvalidArguments(argv)
          ELSE IF ~fs[argv[1]].readable
          THEN HandleUncaught(argv, store, <<>>, "PermissionError")
          ELSE LET r == FindHighest(fs[argv[1]].content, store)
               IN  IF r.raised # "none"
                   THEN HandleUncaught(argv, r.table, r.lines, r.raised)
                   ELSE HandleReport(argv, r)

NextBatch ==
    \/ FindHighestCall
    \/ Handle

SpecBatch == InitBatch /\ [][NextBatch]_vars

(***************************************************************************)
(* Submissions and batches one after the other, from the empty store.      *)
(***************************************************************************)
\* "a,u,0" / "A,U,1" / "a,v,1" / "E-acute,u,-1"
DataLines ==
    { <<97, 44, 117, 44, 48>>,
      <<65, 44, 85, 44, 49>>,
      <<97, 44, 118, 44, 49>>,
      <<201, 44, 117, 44, 45, 49>> }

\* batches of one or two well-formed rows
SmallBatches ==
    {JoinLines(ls) : ls \in UNION {[1..n -> DataLines] : n \in 1..2}}

\* find_highest on one of the small batches
BatchRun ==
    \E text \in SmallBatches :
        LET r == FindHighest(text, store)
        IN  /\ Len(r.table) <= MaxRecords
            /\ store' = r.table
            /\ pre' = store
            /\ call' = [NoCall EXCEPT !.op = "batch"]
            /\ ret' = [NoRet EXCEPT !.status = "ok",
                                    !.names = r.highest_scorers,
                                    !.highest = r.highest_score,
                                    !.lines = r.lines]
            /\ UNCHANGED <<fs, out, admins, reqs>>

NextSeq ==
    \/ Upsert
    \/ PostUserScore
    \/ BatchRun
    \/ GetScoreForUser

SpecSeq == Init /\ [][NextSeq]_vars

(***************************************************************************)
(* Requests in flight at once.  post_user_score runs in the server's       *)
(* worker threads, each request on a session of its own; the select of     *)
(* create_or_update_user_score and its commit are separate statements.     *)
(***************************************************************************)
\* mutant of RowsRead: the write selects the matching rows again
RowsReadAgain(table, req) == SelectByName(table, req.first, req.second)

\* user_scores at lines 73-81: the rows the request's own select returned
RowsRead(table, req) == req.user_scores

\* lines 67-71: the select of one request
ReadMatches(p) ==
    /\ reqs[p].pc = "idle"
    /\ \E idn \in Identities, sc \in Scores :
          reqs' = [reqs EXCEPT ![p] =
                      [pc |-> "read", first |-> idn[1], second |-> idn[2],
                       score |-> sc,
                       user_scores |-> SelectByName(store, idn[1], idn[2])]]
    /\ UNCHANGED <<store, pre, call, ret, fs, out, admins>>

\* lines 73-84 and the response: the insert, or the update of the row read
\* first by its id (nothing is flushed when the score assigned is the one
\* read), then the commit; refresh() reloads the row for the response
WriteCommit(p) ==
    LET req == reqs[p]
        user_scores == RowsRead(store, req)
        inserting == Len(user_scores) = 0
        added == UserScore(NewId(store), req.first, req.second, req.score)
        target == user_scores[1]
        flushed == target.score # req.score
        table == IF inserting THEN Append(store, added)
                 ELSE [i \in 1..Len(store) |->
                          IF store[i].id = target.id /\ flushed
                          THEN UpdateScore(store[i], req.first, req.second,
                                           req.score)
                          ELSE store[i]]
        Mine(row) == row.id = (IF inserting THEN added.id ELSE target.id)
    IN  /\ req.pc = "read"
        /\ store' = table
        /\ pre' = store
        /\ reqs' = [reqs EXCEPT ![p] = [Idle EXCEPT !.pc = "done"]]
        /\ call' = [NoCall EXCEPT !.op = "post", !.first = req.first,
                                  !.second = req.second, !.score = req.score]
        /\ ret' = [NoRet EXCEPT !.status = "200",
                                !.rows = Serialize(SelectSeq(table, Mine))]
        /\ UNCHANGED <<fs, out, admins>>

\* a lookup between the steps of the requests
LookupDuringRequests ==
    /\ GetScoreForUser
    /\ \E p \in Requests : reqs[p].pc # "idle"

NextRace ==
    \/ \E p \in Requests : ReadMatches(p)
    \/ \E p \in Requests : WriteCommit(p)
    \/ LookupDuringRequests

SpecRace == Init /\ [][NextRace]_vars

(***************************************************************************)
(* Access control: create_admin_user and POST /token.                      *)
(***************************************************************************)
AdminUser(id, username, password_hash, salt) ==
    [id |-> id, username |-> username, password_hash |-> password_hash,
     salt |-> salt]

\* hashlib.pbkdf2_hmac('sha256', password, salt, 100000): a digest that is
\* equal for equal (password, salt) and, collisions aside, for nothing else
Pbkdf2(password, salt) == <<"pbkdf2_hmac", "sha256", password, salt>>

\* the values os.urandom(16) can give
Salts == {"salt1", "salt2", "salt3"}

Usernames == {"admin", "guest", ""}

Passwords == {"admin", "wrong", ""}

\* create_admin_user: the fixed name and password under a fresh salt; nothing
\* keeps it from running twice
CreateAdminUser ==
    /\ Len(admins) < MaxAdmins
    /\ \E salt \in Salts :
          admins' = Append(admins, AdminUser(NewId(admins), "admin",
                                             Pbkdf2("admin", salt), salt))
    /\ call' = [NoCall EXCEPT !.op = "create_admin_user"]
    /\ ret' = NoRet
    /\ UNCHANGED <<store, pre, fs, out, reqs>>

\* Result.one(): the only row, or an exception for none and for several
One(rows) ==
    IF Len(rows) = 0 THEN [raised |-> "NoResultFound", row |-> <<>>]
    ELSE IF Len(rows) > 1 THEN [raised |-> "MultipleResultsFound", row |-> <<>>]
    ELSE [raised |-> "none", row |-> rows[1]]

\* login on the admin table: the status and the body of the response.  An
\* exception that login does not turn into an HTTPException is answered 500.
LoginResponse(table, username, password) ==
    LET Named(row) == row.username = username
        found == One(SelectSeq(table, Named))
    IN  IF found.raised # "none" THEN [status |-> "500", body |-> <<>>]
        ELSE IF found.row = <<>> THEN [status |-> "400", body |-> <<>>]
        ELSE IF found.row.password_hash # Pbkdf2(password, found.row.salt)
        THEN [status |-> "400", body |-> <<>>]
        ELSE [status |-> "200",
              body |-> <<[access_token |-> found.row.username,
                          token_type |-> "bearer"]>>]

\* POST /token
Login ==
    \E username \in Usernames, password \in Passwords :
        LET r == LoginResponse(admins, username, password)
        IN  /\ call' = [NoCall EXCEPT !.op = "login",
                           !.form = [username |-> username,
                                     password |-> password]]
            /\ ret' = [NoRet EXCEPT !.status = r.status, !.rows = r.body]
            /\ UNCHANGED <<store, pre, fs, out, admins, reqs>>

NextAuth ==
    \/ CreateAdminUser
    \/ Login

SpecAuth == Init /\ [][NextAuth]_vars

(***************************************************************************)
(* Vocabulary of the properties.                                           *)
(***************************************************************************)
\* the identity key of the specification: both names compared case-insensitively
SameIdentity(row, first, second) ==
    /\ PyLower(row.first_name) = PyLower(first)
    /\ PyLower(row.second_name) = PyLower(second)

IdentityCount(table, first, second) ==
    Cardinality({i \in 1..Len(table) : SameIdentity(table[i], first, second)})

IsUpsertCall == call.op \in {"upsert", "post"}

\* the row an upsert answered with, without its id (Submit serialises it so)
Answered == UserScoreBase(ret.rows[1])

\* C1: an upsert whose identity key matches no stored record case-insensitively
\* appends exactly one record that carries the submitted names and score and an
\* id no stored record has, answers with it, and leaves every stored record as
\* it was.
C1_UpsertCreatesOneRecord ==
    (IsUpsertCall /\ IdentityCount(pre, call.first, call.second) = 0) =>
        /\ Len(store) = Len(pre) + 1
        /\ SubSeq(store, 1, Len(pre)) = pre
        /\ UserScoreBase(store[Len(store)]) =
               [first_name |-> call.first, second_name |-> call.second,
                score |-> call.score]
        /\ store[Len(store)].id \notin Ids(pre)
        /\ Answered = UserScoreBase(store[Len(store)])

C1_Witness ==
    /\ call.op = "upsert"
    /\ Len(pre) = 2
    /\ IdentityCount(pre, call.first, call.second) = 0
    /\ \E i \in 1..Len(pre) : PyLower(pre[i].first_name) = PyLower(call.first)
    /\ Len(store) = 3

\* C2: an upsert whose identity key matches a stored record in any case variant
\* changes only that record's score: the number of records is unchanged, ids
\* and names are as stored, only a matching record differs, and the record
\* answered carries the stored casing and the submitted score.
C2_UpsertChangesOnlyScore ==
    (IsUpsertCall /\ IdentityCount(pre, call.first, call.second) > 0) =>
        /\ Len(store) = Len(pre)
        /\ \A i \in 1..Len(pre) :
              /\ store[i].id = pre[i].id
              /\ store[i].first_name = pre[i].first_name
              /\ store[i].second_name = pre[i].second_name
              /\ store[i].score # pre[i].score =>
                    SameIdentity(pre[i], call.first, call.second)
        /\ \E i \in 1..Len(pre) :
              /\ SameIdentity(pre[i], call.first, call.second)
              /\ store[i].score = call.score
              /\ Answered = UserScoreBase(store[i])

\* C3: a lookup answers by the number of records that match the names
\* case-insensitively on both fields: none gives 404, exactly one gives 200
\* with that record, several give 500; the store is not modified.
C3_LookupThreeOutcomes ==
    call.op = "get" =>
        LET n == IdentityCount(store, call.first, call.second)
        IN  /\ store = pre
            /\ n = 0 => (ret.status = "404" /\ ret.rows = <<>>)
            /\ n > 1 => (ret.status = "500" /\ ret.rows = <<>>)
            /\ n = 1 =>
                  /\ ret.status = "200"
                  /\ \E i \in 1..Len(store) :
                        /\ SameIdentity(store[i], call.first, call.second)
                        /\ ret.rows = <<UserScoreBase(store[i])>>

\* C4: the top scorers are exactly the records whose score is the maximum over
\* the store: every tied record, no lower one, the single record of a
\* one-record store, and the empty result for the empty store.
C4_TopScorersExactlyMaxima ==
    call.op = "top" =>
        LET IsMax(sc) == \A j \in 1..Len(store) : store[j].score <= sc
            maxima == {i \in 1..Len(store) : IsMax(store[i].score)}
        IN  /\ store = pre
            /\ ret.status = "200"
            /\ Len(ret.rows) = Cardinality(maxima)
            /\ \A k \in 1..Len(ret.rows) :
                  \E i \in maxima : ret.rows[k] = UserScoreBase(store[i])
            /\ \A i \in maxima :
                  \E k \in 1..Len(ret.rows) : ret.rows[k] = UserScoreBase(store[i])
            /\ Len(store) = 1 => ret.rows = Serialize(store)
            /\ store = <<>> => ret.rows = <<>>

C4_Witness ==
    /\ call.op = "top"
    /\ Len(store) = 3
    /\ Len(ret.rows) = 2
    /\ ret.rows[1] # ret.rows[2]

(***************************************************************************)
(* Vocabulary of the batch properties.                                     *)
(***************************************************************************)
\* a run of find_highest on the text of in.csv, directly or by the driver
IsBatchRun ==
    \/ call.op = "find_highest"
    \/ call.op = "handle" /\ Len(call.argv) >= 1 /\ call.argv[1] = "in.csv"

\* the text the run read, and its rows
BatchText == fs["in.csv"].content

BatchRows == Split(BatchText, Newline)

FirstOf(line) == Split(line, Comma)[1]

SecondOf(line) == Split(line, Comma)[2]

ScoreOf(line) == ParseInt(Split(line, Comma)[3]).value

NameOf(line) == FirstOf(line) \o Space \o SecondOf(line)

NamesOf(lines) == [i \in 1..Len(lines) |-> NameOf(lines[i])]

\* the rows the run upserted and reduced
Processed == ret.lines

SameKey(l1, l2) ==
    /\ PyLower(FirstOf(l1)) = PyLower(FirstOf(l2))
    /\ PyLower(SecondOf(l1)) = PyLower(SecondOf(l2))

\* C5: a batch that ends normally reports highestScore = max(0, the largest
\* score of the processed rows) and, as names, the "first second" strings of
\* exactly the processed rows with that score, in file order, repeated rows
\* repeated; all-negative batches report no name and 0.
C5_ReportIsTiedMaxima ==
    (IsBatchRun /\ ret.status = "ok") =>
        LET AtTop(line) == ScoreOf(line) = ret.highest
        IN  /\ ret.highest >= 0
            /\ \A i \in 1..Len(Processed) : ScoreOf(Processed[i]) <= ret.highest
            /\ ret.highest > 0 =>
                  \E i \in 1..Len(Processed) : ScoreOf(Processed[i]) = ret.highest
            /\ ret.names = NamesOf(SelectSeq(Processed, AtTop))
            /\ (\A i \in 1..Len(Processed) : ScoreOf(Processed[i]) < 0) =>
                  (ret.names = <<>> /\ ret.highest = 0)

C5_Witness ==
    /\ call.op = "find_highest"
    /\ ret.status = "ok"
    /\ Len(Processed) = 3
    /\ ScoreOf(Processed[1]) = 0
    /\ Len(ret.names) = 2
    /\ ret.names[1] # ret.names[2]
    /\ ret.highest = 2

\* C6: a batch run on an empty store leaves exactly one record per distinct
\* case-insensitive identity key of its processed rows, in order of first
\* occurrence, with the name casing of the key's first row and the score of
\* its last row.
C6_OneRecordPerIdentityKey ==
    (IsBatchRun /\ ret.status = "ok" /\ pre = <<>>) =>
        LET n == Len(Processed)
            firsts == {i \in 1..n : \A j \in 1..(i - 1) :
                          ~SameKey(Processed[j], Processed[i])}
            LastOf(i) == CHOOSE j \in 1..n :
                            /\ SameKey(Processed[j], Processed[i])
                            /\ \A k \in (j + 1)..n :
                                  ~SameKey(Processed[k], Processed[i])
            Rank(i) == Cardinality({j \in firsts : j <= i})
        IN  /\ Len(store) = Cardinality(firsts)
            /\ \A i \in firsts :
                  /\ store[Rank(i)].first_name = FirstOf(Processed[i])
                  /\ store[Rank(i)].second_name = SecondOf(Processed[i])
                  /\ store[Rank(i)].score = ScoreOf(Processed[LastOf(i)])

\* C7: what find_highest returns (or raises) is the same whatever the store
\* held before the run.
C7_ReportIndependentOfStore ==
    call.op = "find_highest" =>
        \A other \in EarlierStores :
            LET r == FindHighest(BatchText, other)
            IN  IF r.raised = "none"
                THEN /\ ret.status = "ok"
                     /\ ret.names = r.highest_scorers
                     /\ ret.highest = r.highest_score
                ELSE ret.status = r.raised

C7_Witness ==
    /\ call.op = "find_highest"
    /\ ret.status = "ok"
    /\ ret.names # <<>>
    /\ \E i \in 1..Len(pre) : pre[i].score > ret.highest
    /\ \E i \in 1..Len(pre) : SameIdentity(pre[i], FirstOf(Processed[1]),
                                           SecondOf(Processed[1]))
    /\ MaxScoreRows(store)[1].score > ret.highest

\* the rows C8 expects to be processed: every row that is not blank, but for
\* the first row whose first cell is "first name" in any casing
IsBlank(line) == Strip(line) = <<>>

FirstCellIsHeader(line) == PyLower(FirstOf(line)) = HeaderPhrase

ExpectedRowsOneHeader ==
    LET rows == BatchRows
        headers == {i \in 1..Len(rows) : FirstCellIsHeader(rows[i])}
        skipped == IF headers = {} THEN 0
                   ELSE CHOOSE i \in headers : \A j \in headers : i <= j
        idx == {i \in 1..Len(rows) : ~IsBlank(rows[i]) /\ i # skipped}
        Nth(k) == CHOOSE i \in idx : Cardinality({j \in idx : j <= i}) = k
    IN  [k \in 1..Cardinality(idx) |-> rows[Nth(k)]]

\* C8 as stated: at most one row, one whose first cell is "first name", is
\* skipped as the header; every other non-blank row is upserted and reduced.
C8_AtMostOneHeaderSkipped ==
    (IsBatchRun /\ ret.status = "ok") => Processed = ExpectedRowsOneHeader

\* the rows find_highest parses: the non-empty rows that nowhere contain
\* "first name" in any casing
ParsedRows ==
    LET Kept(line) == line # <<>> /\ Find(PyLower(line), HeaderPhrase) = -1
    IN  SelectSeq(BatchRows, Kept)

\* C8 (amended): every row that contains "first name" in any casing, in any
\* cell and however many such rows there are, is skipped; every other
\* non-empty row is parsed in file order and upserted and reduced, up to the
\* row, if any, that aborts the batch.
C8_EveryRowWithPhraseSkipped ==
    IsBatchRun =>
        /\ Len(Processed) <= Len(ParsedRows)
        /\ Processed = SubSeq(ParsedRows, 1, Len(Processed))
        /\ ret.status = "ok" <=> Len(Processed) = Len(ParsedRows)

C8_Witness ==
    /\ call.op = "find_highest"
    /\ ret.status = "ok"
    /\ Len(BatchRows) = 3
    /\ Len(Processed) = 1
    /\ \E i \in 1..3 : FirstCellIsHeader(BatchRows[i])
    /\ \E i \in 1..3 : /\ ~FirstCellIsHeader(BatchRows[i])
                       /\ Find(PyLower(BatchRows[i]), HeaderPhrase) > 0

\* C9: rows that are empty after trimming are skipped without aborting the
\* batch: the run ends as the run on the same text without those rows does.
C9_BlankRowsSkipped ==
    IsBatchRun =>
        LET NotBlank(line) == ~IsBlank(line)
            r == FindHighest(JoinLines(SelectSeq(BatchRows, NotBlank)), pre)
        IN  /\ store = r.table
            /\ Processed = r.lines
            /\ IF r.raised = "none"
               THEN /\ ret.status = "ok"
                    /\ ret.names = r.highest_scorers
                    /\ ret.highest = r.highest_score
               ELSE ret.status = r.raised

\* names joined with single spaces, none leading or trailing
RECURSIVE JoinWithSpaces(_)
JoinWithSpaces(names) ==
    IF names = <<>> THEN <<>>
    ELSE IF Len(names) = 1 THEN names[1]
    ELSE names[1] \o Space \o JoinWithSpaces(Tail(names))

\* C10: on success the driver's text is the sorted names joined with single
\* spaces, a newline and "Score: <highestScore>"; it is printed with a
\* trailing newline, or written to the output file without one.
C10_DriverOutputFormat ==
    (call.op = "handle" /\ ret.status = "ok") =>
        LET text == JoinWithSpaces(Sorted(ret.names)) \o ScoreLabel
                        \o IntToStr(ret.highest)
            toFile == Len(call.argv) >= 2 /\ fs[call.argv[2]].writable
        IN  IF toFile
            THEN fs[call.argv[2]].content = text /\ out.stdout = <<>>
            ELSE out.stdout = text \o Newline

\* C11: when the input path is missing, or names a file that does not exist
\* or cannot be read, the driver prints exactly the fixed diagnostic, exits
\* with status 1 and does not call find_highest: the store is unchanged.
C11_InvalidInputDiagnosed ==
    (/\ call.op = "handle"
     /\ \/ Len(call.argv) < 1
        \/ ~fs[call.argv[1]].exists
        \/ ~fs[call.argv[1]].readable) =>
        /\ out.stdout = InvalidArguments \o Newline
        /\ out.code = 1
        /\ ret.status = "SystemExit"
        /\ Processed = <<>>
        /\ store = pre

\* the (first, second, score) submissions that rows stand for
SubmissionsOf(lines) ==
    [i \in 1..Len(lines) |->
        <<FirstOf(lines[i]), SecondOf(lines[i]), ScoreOf(lines[i])>>]

\* the parsed rows whose score field is there and is no integer
MalformedRows ==
    {i \in 1..Len(ParsedRows) :
        /\ Len(Split(ParsedRows[i], Comma)) >= 3
        /\ ~ParseInt(Split(ParsedRows[i], Comma)[3]).ok}

\* C16: a row whose score field is no integer aborts the batch: nothing is
\* returned, that row and the rows after it are neither upserted nor reduced,
\* and the upserts of the rows before it stay committed (no rollback).
C16_MalformedScoreAbortsBatch ==
    (IsBatchRun /\ MalformedRows # {}) =>
        LET bad == CHOOSE i \in MalformedRows : \A j \in MalformedRows : i <= j
        IN  /\ ret.status \in {"ValueError", "IndexError"}
            /\ ret.names = <<>> /\ ret.highest = 0
            /\ Len(Processed) < bad
            /\ Processed = SubSeq(ParsedRows, 1, Len(Processed))
            /\ ret.status = "ValueError" => Len(Processed) = bad - 1
            /\ store = UpsertAll(pre, SubmissionsOf(Processed))
            /\ call.op = "handle" => (out.stdout = <<>> /\ out.code = 1)

C16_Witness ==
    /\ call.op = "find_highest"
    /\ ret.status = "ValueError"
    /\ Len(ParsedRows) = 3
    /\ MalformedRows = {2}
    /\ Len(Processed) = 1
    /\ Len(store) = Len(pre) + 1
    /\ IdentityCount(store, FirstOf(ParsedRows[3]), SecondOf(ParsedRows[3])) = 0

\* the stored credentials a login form is valid for
ValidCredentials(form) ==
    {i \in 1..Len(admins) :
        /\ admins[i].username = form.username
        /\ admins[i].password_hash = Pbkdf2(form.password, admins[i].salt)}

\* C12: login answers 200 with {access_token, token_type} when the username
\* exists and the salted hash of the password equals the stored hash, and the
\* same 400 both for an unknown username and for a wrong password; there is
\* no other outcome.
C12_LoginOutcomes ==
    call.op = "login" =>
        IF ValidCredentials(call.form) # {}
        THEN /\ ret.status = "200"
             /\ ret.rows = <<[access_token |-> call.form.username,
                              token_type |-> "bearer"]>>
        ELSE ret.status = "400" /\ ret.rows = <<>>

\* C13: in every state that submissions, upserts and batches reach one at a
\* time from the empty store, no two records share a case-insensitive
\* identity key, no record has been deleted, no id is used twice, and no
\* lookup has answered 500.
C13_SequentialKeysUnique ==
    /\ \A i, j \in 1..Len(store) :
          i < j => ~SameIdentity(store[i], store[j].first_name,
                                 store[j].second_name)
    /\ Len(pre) <= Len(store)
    /\ \A i \in 1..Len(pre) : store[i].id = pre[i].id
    /\ Cardinality(Ids(store)) = Len(store)
    /\ call.op = "get" => ret.status # "500"

\* C14: the write of an upsert acts on what its own read returned, whatever
\* has been committed since: a request whose read found no match inserts its
\* record, any other inserts none; so two requests for one unseen key that
\* both read before either writes both insert, and the lookup of that key
\* then answers 500.
C14_WriteFollowsOwnRead ==
    [][\A p \in Requests :
          (reqs[p].pc = "read" /\ reqs'[p].pc = "done") =>
              IF reqs[p].user_scores = <<>>
              THEN /\ Len(store') = Len(store) + 1
                   /\ SubSeq(store', 1, Len(store)) = store
                   /\ UserScoreBase(store'[Len(store')]) =
                          [first_name |-> reqs[p].first,
                           second_name |-> reqs[p].second,
                           score |-> reqs[p].score]
              ELSE Len(store') = Len(store)]_vars

C14_Witness ==
    /\ call.op = "get"
    /\ ret.status = "500"
    /\ Len(store) = 2
    /\ store[1].id # store[2].id
    /\ SameIdentity(store[1], store[2].first_name, store[2].second_name)
    /\ SameIdentity(store[1], call.first, call.second)
    /\ \A p \in Requests : reqs[p].pc = "done"

\* the first record of the table that carries the identity key
FirstMatch(table, first, second) ==
    CHOOSE i \in 1..Len(table) :
        /\ SameIdentity(table[i], first, second)
        /\ \A j \in 1..(i - 1) : ~SameIdentity(table[j], first, second)

\* C15: an upsert for an identity key that several stored records already
\* carry raises nothing, inserts no record, overwrites the score of the first
\* of those records and leaves every other record as it was, so the
\* duplicates stay.
C15_DuplicatesOnlyFirstUpdated ==
    (IsUpsertCall /\ IdentityCount(pre, call.first, call.second) >= 2) =>
        LET k == FirstMatch(pre, call.first, call.second)
        IN  /\ ret.status \in {"ok", "200"}
            /\ Len(store) = Len(pre)
            /\ store[k] = [pre[k] EXCEPT !.score = call.score]
            /\ \A i \in 1..Len(pre) : i # k => store[i] = pre[i]
            /\ IdentityCount(store, call.first, call.second) =
                   IdentityCount(pre, call.first, call.second)

====
